---- MODULE Spec2Model ----
(***************************************************************************)
(* Model of wyoming_azure_keyword.__main__.AzureWakeWordHandler (one       *)
(* connection), its background tasks (_check_detection_results,            *)
(* _restart_timer), its executor threads (_send_audio_to_queue,            *)
(* _get_result_nonblocking) and the worker processes running               *)
(* worker.worker_main.                                                     *)
(*                                                                         *)
(* The asyncio loop is one thread: a handler, the poller and the timer run *)
(* one at a time and give up control only at an await.  The only place the *)
(* loop blocks is inside stop_detection_subprocess (process.join); while   *)
(* it blocks there (loopPc = "join") only the worker processes and the     *)
(* executor threads take steps.                                            *)
(*                                                                         *)
(* Spec is the system without a clock (a restart timer may run out at any  *)
(* moment); TimedSpec adds a clock that counts the ticks since the         *)
(* handler's worker and its restart timer were created; FairSpec is Spec   *)
(* with the fairness the event loop gives, and LiveSpec adds that pollers,  *)
(* executor calls and restart timers run.  The client may close the        *)
(* connection between two events (ConnectionEnd).                          *)
(*                                                                         *)
(* InProcSpec is the other handler of the package,                         *)
(* handler.AzureSpeechKeywordEventHandler, with the model and the lock its *)
(* connections share (azure_speech_keyword.AzureSpeechKeyword).  It has    *)
(* variables of its own; main() does not serve it.                         *)
(***************************************************************************)
EXTENDS Integers, Sequences, FiniteSets, TLC

\* ---- bounds of the model (inputs of the environment) ----
\* events the client sends on the connection
MaxEvents == 3
\* times a restart timer runs out
MaxTimerFires == 1
\* times the engine calls _recognized
MaxRecog == 2
\* times a worker raises into its outer except clause
MaxErrors == 1
\* clock ticks in one restart interval (restart_interval seconds)
RestartTicks == 2

\* events the clients of the in-process handler send, on all connections
IpMaxEvents == 4
\* chunks written to the stream of the in-process recognizer
IpMaxPushed == 2
\* connections served by in-process handlers that share one model
MaxConns == 2

\* every worker is started by an AudioStart, a timer or a detection
MaxWorkers == MaxEvents + MaxTimerFires + MaxRecog
Workers == 1..MaxWorkers
Formats == {"fmt16k", "fmt8k"}
\* evt.result.text, as the engine may report it
EngineTexts == {"hey azure", "hey computer"}
\* datetime.now().timestamp(), in tenths of a second
Times == {12, 17}
\* args.keyword_name: the default of --keyword-name
keyword_name == "azure_wake_word"
\* _get_result_nonblocking returned None
NoResult == [status |-> "none"]
\* nothing was written to the client yet
NoEvent == [type |-> "none"]
\* the stop sentinel put on the audio queue: None
Sentinel == 0
Conns == 1..MaxConns
NoCtx == [by |-> "", proc |-> 0, aq |-> 0, rq |-> 0, joining |-> FALSE]

VARIABLES
    \* fields of AzureWakeWordHandler (0 / "" stand for None)
    worker_process, audio_queue, result_queue,
    check_result_task, restart_timer_task, stream_format,
    \* the event loop: "idle" (between callbacks) or "join" (blocked in
    \* stop_detection_subprocess after the sentinel was sent)
    loopPc, stopCtx,
    \* handle_event of the connection: the event being handled, the last one handled
    curEvent, lastEvent,
    \* tasks, by the id of the worker they were created with
    poller, pollerRes, timer,
    \* the executor call of handle_audio_chunk
    sendCall,
    \* worker processes and their two queues
    wcount, wpc, wfmt, audioQ, resultQ, pushed, recog,
    \* inside worker_main: recognizer is not None; history: messages put on the
    \* result queue, messages taken from the audio queue, runs of the dispose
    \* block of the finally clause, the way worker_main ended ("" while it runs)
    recognizer, wmsgs, wtook, disposed, wexit,
    \* parent side of the queues: number of close() calls
    aqClosed, rqClosed,
    \* history: steps of stop_detection_subprocess per worker, who stopped it
    stopLog, stopBy,
    \* events written to the client: Detection events by worker, Info events
    detSent, infoSent,
    \* the last event written to the client
    lastWritten,
    \* the client and the environment
    nStarts, nFrames, nStops, nDescribes, nTimerFires, nErrors,
    \* events of any other type the client sent
    nOthers,
    \* history: stream (AudioStart count) a worker was spawned in, streams closed by AudioStop
    wstream, closedStreams,
    \* what the last handle_event call did: "none" (no call yet), its return
    \* value "True" or "False", or "raised"
    eventResult,
    \* history: frames _send_audio_to_queue or handle_audio_chunk did not enqueue
    dropped,
    \* history: workers whose error message the poller logged
    errLogged,
    \* the clock: ticks since start_detection_subprocess created the handler's
    \* worker and its restart timer
    age,
    \* the client has not closed the connection: AsyncEventHandler.run is still
    \* reading events
    connected,
    \* ---- the in-process handler (handler.py, azure_speech_keyword.py) ----
    \* the asyncio.Lock shared by the handlers: the connection holding it, or 0
    model_lock,
    \* fields of AzureSpeechKeyword: _stream ("none", "open", "closed"),
    \* _keyword_recognizer is not None, recognition_done, _results ("" for None,
    \* else the text of the result)
    ip_stream, keyword_recognizer, recognition_done, results,
    \* the engine of the current recognizer ("none", "running", "recognized",
    \* "canceled") and the chunks written to its stream
    ipEngine, ipPushed,
    \* each connection's handle_event: its position, the event it handles, the
    \* text get_results returned to it, the last event it wrote, its outcome
    ipPc, ipEv, ipText, ipWritten, ipResult,
    \* events the clients sent
    ipEvents

vars == <<worker_process, audio_queue, result_queue, check_result_task,
          restart_timer_task, stream_format, loopPc, stopCtx, curEvent, lastEvent,
          poller, pollerRes, timer, sendCall, wcount, wpc, wfmt, audioQ, resultQ,
          pushed, recog, aqClosed, rqClosed, stopLog, stopBy, detSent, infoSent,
          nStarts, nFrames, nStops, nDescribes, nTimerFires, nErrors,
          wstream, closedStreams, lastWritten, recognizer, wmsgs, wtook, disposed, wexit,
          nOthers, eventResult, dropped, errLogged, age, connected,
          model_lock, ip_stream, keyword_recognizer, recognition_done, results,
          ipEngine, ipPushed, ipPc, ipEv, ipText, ipWritten, ipResult, ipEvents>>

\* the served handler, its tasks and its workers
mainVars == <<worker_process, audio_queue, result_queue, check_result_task,
              restart_timer_task, stream_format, loopPc, stopCtx, curEvent, lastEvent,
              poller, pollerRes, timer, sendCall, wcount, wpc, wfmt, audioQ, resultQ,
              pushed, recog, aqClosed, rqClosed, stopLog, stopBy, detSent, infoSent,
              nStarts, nFrames, nStops, nDescribes, nTimerFires, nErrors,
              wstream, closedStreams, lastWritten, recognizer, wmsgs, wtook, disposed,
              wexit, nOthers, eventResult, dropped, errLogged, age, connected>>
\* the in-process handlers and their model
ipVars == <<model_lock, ip_stream, keyword_recognizer, recognition_done, results,
            ipEngine, ipPushed, ipPc, ipEv, ipText, ipWritten, ipResult, ipEvents>>

handlerVars == <<worker_process, audio_queue, result_queue, check_result_task,
                 restart_timer_task, stream_format>>
workerVars == <<wcount, wpc, wfmt, audioQ, resultQ, pushed, recog>>
engineVars == <<recognizer, wmsgs, wtook, disposed, wexit>>
clientVars == <<nStarts, nFrames, nStops, nDescribes>>
\* the client may send one more event: it has not closed the connection, and
\* its events and its close together stay within the bound
MoreEvents ==
    connected /\ nStarts + nFrames + nStops + nDescribes + nOthers < MaxEvents
outVars == <<detSent, infoSent>>

\* ---- helpers ----

\* process.is_alive()
Alive(pc) == pc \in {"init", "loop", "wait"}

\* faulty variant of QueuePut: the message goes to the head of the queue
QueuePutFront(q, x) == <<x>> \o q

\* Queue.put_nowait: FIFO
QueuePut(q, x) == Append(q, x)

\* Queue.get: the message taken is removed
QueueRest(q) == Tail(q)

RECURSIVE SumRecog(_)
SumRecog(n) == IF n = 0 THEN 0 ELSE recog[n] + SumRecog(n - 1)

Init ==
    /\ worker_process = 0 /\ audio_queue = 0 /\ result_queue = 0
    /\ check_result_task = 0 /\ restart_timer_task = 0 /\ stream_format = ""
    /\ loopPc = "idle" /\ stopCtx = NoCtx
    /\ curEvent = "" /\ lastEvent = ""
    /\ poller = [w \in Workers |-> "none"]
    /\ pollerRes = [w \in Workers |-> NoResult]
    /\ timer = [w \in Workers |-> "none"]
    /\ sendCall = [st |-> "none", frame |-> 0, q |-> 0]
    /\ wcount = 0
    /\ wpc = [w \in Workers |-> "none"]
    /\ wfmt = [w \in Workers |-> ""]
    /\ audioQ = [w \in Workers |-> <<>>]
    /\ resultQ = [w \in Workers |-> <<>>]
    /\ pushed = [w \in Workers |-> <<>>]
    /\ recog = [w \in Workers |-> 0]
    /\ aqClosed = [w \in Workers |-> 0]
    /\ rqClosed = [w \in Workers |-> 0]
    /\ stopLog = [w \in Workers |-> <<>>]
    /\ stopBy = [w \in Workers |-> ""]
    /\ detSent = [w \in Workers |-> 0]
    /\ infoSent = 0
    /\ lastWritten = NoEvent
    /\ nStarts = 0 /\ nFrames = 0 /\ nStops = 0 /\ nDescribes = 0
    /\ nTimerFires = 0 /\ nErrors = 0
    /\ wstream = [w \in Workers |-> 0]
    /\ closedStreams = {}
    /\ recognizer = [w \in Workers |-> FALSE]
    /\ wmsgs = [w \in Workers |-> 0]
    /\ wtook = [w \in Workers |-> 0]
    /\ disposed = [w \in Workers |-> 0]
    /\ wexit = [w \in Workers |-> ""]
    /\ nOthers = 0
    /\ eventResult = "none"
    /\ dropped = {}
    /\ errLogged = {}
    /\ age = 0
    /\ connected = TRUE
    /\ model_lock = 0
    /\ ip_stream = "none" /\ keyword_recognizer = FALSE
    /\ recognition_done = FALSE /\ results = ""
    /\ ipEngine = "none" /\ ipPushed = 0
    /\ ipPc = [c \in Conns |-> "idle"]
    /\ ipEv = [c \in Conns |-> ""]
    /\ ipText = [c \in Conns |-> ""]
    /\ ipWritten = [c \in Conns |-> "none"]
    /\ ipResult = [c \in Conns |-> "none"]
    /\ ipEvents = 0

\* ---- stop_detection_subprocess, first part (up to the is_alive test) ----

\* faulty variant of CancelPoller: the task is left running
CancelPollerSkipped(st, stale) == st

\* task.cancel() on the poller: a result already taken by the executor is dropped;
\* an executor call that has not run yet is either cancelled with the task or,
\* when its thread has already started, runs later (stale)
CancelPoller(st, stale) ==
    IF st = "exec" /\ stale THEN "stale" ELSE "cancelled"

\* faulty variant of ClearField: the field keeps the stopped worker's value
KeepField(v) == v

\* "Clear immediately": self.audio_queue = None, self.result_queue = None,
\* self.worker_process = None
ClearField(v) == 0

\* faulty variant of ClearTask: the task is cancelled and the field keeps it
KeepTask(t) == t

\* self.check_result_task = None, self.restart_timer_task = None
ClearTask(t) == 0

\* audio_q.put_nowait(None), exceptions swallowed (a closed queue raises)
SendSentinel(q, closed) ==
    IF closed = 0 THEN QueuePut(q, Sentinel) ELSE q

StopSignal(by, stale) ==
    LET t == check_result_task
        r == restart_timer_task
        aq == audio_queue
        rq == result_queue
        p == worker_process
    IN  /\ stale => (t # 0 /\ poller[t] = "exec")
        /\ poller' = IF t # 0 THEN [poller EXCEPT ![t] = CancelPoller(@, stale)]
                     ELSE poller
        /\ check_result_task' = ClearTask(check_result_task)
        /\ timer' = IF r # 0 THEN [timer EXCEPT ![r] = "cancelled"] ELSE timer
        /\ restart_timer_task' = ClearTask(restart_timer_task)
        /\ audio_queue' = ClearField(audio_queue)
        /\ result_queue' = ClearField(result_queue)
        /\ worker_process' = ClearField(worker_process)
        /\ audioQ' = IF aq # 0 THEN [audioQ EXCEPT ![aq] = SendSentinel(@, aqClosed[aq])]
                     ELSE audioQ
        /\ stopLog' = IF aq # 0 /\ aqClosed[aq] = 0
                      THEN [stopLog EXCEPT ![aq] = Append(@, "sentinel")]
                      ELSE stopLog
        /\ stopBy' = IF p # 0 THEN [stopBy EXCEPT ![p] = by] ELSE stopBy
        /\ stopCtx' = [by |-> by, proc |-> p, aq |-> aq, rq |-> rq,
                       joining |-> p # 0 /\ Alive(wpc[p])]
        /\ loopPc' = "join"

stopSigRest == <<sendCall, wcount, wpc, wfmt, resultQ, pushed, recog, aqClosed,
                 rqClosed, wstream, closedStreams>>

\* ---- stop_detection_subprocess, second part; start_detection_subprocess ----

\* faulty variant of ReapPc: a worker still alive after the join is left running
ReapPcNoTerminate(pc) == pc

\* process.join(timeout=2); if process.is_alive(): process.terminate(); process.join()
ReapPc(pc) == IF Alive(pc) THEN "terminated" ELSE pc

\* faulty variant of JoinReturns: join() without a timeout waits for the process to end
JoinReturnsNoTimeout(joining, pc) == ~joining \/ ~Alive(pc)

\* process.join(timeout=2) returns when the process has ended or after 2 seconds
JoinReturns(joining, pc) == TRUE

\* what lines 125-131 do to a process found alive at line 125
JoinLog(joining, pc) ==
    IF ~joining THEN <<>>
    ELSE IF Alive(pc) THEN <<"join", "terminate">> ELSE <<"join">>

\* faulty variant of CloseCount: the close() calls are left out
CloseSkipped(n) == n

\* audio_q.close() then result_q.close()
CloseCount(n) == n + 1

\* the worker created by start_detection_subprocess
SpawnId == wcount + 1

\* the server reads the next event while no handle_event call raised or
\* returned False
ConnectionOpen == eventResult \in {"none", "True"}

\* faulty variant of HandleEventResult: the connection is closed after the event
HandleEventResultFalse == "False"

\* handle_event's last statement: return True
HandleEventResult == "True"

\* faulty variant of RestartTimerTask: no timer task is created
RestartTimerMissing == "none"

\* self.restart_timer_task = asyncio.create_task(self._restart_timer()): the
\* new task sleeps restart_interval
RestartTimerTask == "sleeping"

StopReap ==
    /\ loopPc = "join"
    /\ JoinReturns(stopCtx.joining, IF stopCtx.proc # 0 THEN wpc[stopCtx.proc] ELSE "none")
    /\ LET p == stopCtx.proc
           aq == stopCtx.aq
           rq == stopCtx.rq
           reaped == IF p # 0 /\ stopCtx.joining
                     THEN [wpc EXCEPT ![p] = ReapPc(@)] ELSE wpc
           log1 == IF p # 0
                   THEN [stopLog EXCEPT ![p] = @ \o JoinLog(stopCtx.joining, wpc[p])]
                   ELSE stopLog
           log2 == IF aq # 0 THEN [log1 EXCEPT ![aq] = Append(@, "close_audio")] ELSE log1
           log3 == IF rq # 0 THEN [log2 EXCEPT ![rq] = Append(@, "close_result")] ELSE log2
       IN  /\ aqClosed' = IF aq # 0 THEN [aqClosed EXCEPT ![aq] = CloseCount(@)] ELSE aqClosed
           /\ rqClosed' = IF rq # 0 THEN [rqClosed EXCEPT ![rq] = CloseCount(@)] ELSE rqClosed
           /\ stopLog' = log3
           /\ stopCtx' = NoCtx
           /\ loopPc' = "idle"
           /\ IF stopCtx.by = "audio_stop"
              THEN \* handle_audio_stop returns
                   /\ wpc' = reaped
                   /\ curEvent' = ""
                   /\ lastEvent' = "AudioStop"
                   /\ eventResult' = HandleEventResult
                   /\ closedStreams' = IF nStarts > 0 THEN closedStreams \cup {nStarts}
                                       ELSE closedStreams
                   /\ UNCHANGED <<handlerVars, poller, timer, wcount, wfmt, wstream>>
              ELSE \* start_detection_subprocess goes on: queues, process, tasks
                   /\ wcount' = SpawnId
                   /\ wpc' = [reaped EXCEPT ![SpawnId] = "init"]
                   /\ wfmt' = [wfmt EXCEPT ![SpawnId] = stream_format]
                   /\ wstream' = [wstream EXCEPT ![SpawnId] = nStarts]
                   /\ audio_queue' = SpawnId
                   /\ result_queue' = SpawnId
                   /\ worker_process' = SpawnId
                   /\ poller' = [(IF check_result_task # 0
                                  THEN [poller EXCEPT ![check_result_task] = CancelPoller(@, FALSE)]
                                  ELSE poller) EXCEPT ![SpawnId] = "exec"]
                   /\ check_result_task' = SpawnId
                   /\ timer' = [(IF restart_timer_task # 0
                                 THEN [timer EXCEPT ![restart_timer_task] = "cancelled"]
                                 ELSE timer) EXCEPT ![SpawnId] = RestartTimerTask]
                   /\ restart_timer_task' = SpawnId
                   /\ IF stopCtx.by = "audio_start"
                      THEN /\ curEvent' = "" /\ lastEvent' = "AudioStart"
                           /\ eventResult' = HandleEventResult
                      ELSE UNCHANGED <<curEvent, lastEvent, eventResult>>
                   /\ UNCHANGED <<stream_format, closedStreams>>
    \* the process was joined or killed: what it held in memory is gone
    /\ recognizer' = IF stopCtx.proc # 0 THEN [recognizer EXCEPT ![stopCtx.proc] = FALSE]
                     ELSE recognizer
    /\ wmsgs' = IF stopCtx.proc # 0 THEN [wmsgs EXCEPT ![stopCtx.proc] = 0] ELSE wmsgs
    /\ wtook' = IF stopCtx.proc # 0 THEN [wtook EXCEPT ![stopCtx.proc] = 0] ELSE wtook
    /\ disposed' = IF stopCtx.proc # 0 THEN [disposed EXCEPT ![stopCtx.proc] = 0]
                   ELSE disposed
    /\ wexit' = IF stopCtx.proc # 0 THEN [wexit EXCEPT ![stopCtx.proc] = ""] ELSE wexit
    \* a closed queue of a dead worker holds nothing anyone can read
    /\ audioQ' = IF stopCtx.aq # 0 THEN [audioQ EXCEPT ![stopCtx.aq] = <<>>] ELSE audioQ
    /\ resultQ' = IF stopCtx.rq # 0 THEN [resultQ EXCEPT ![stopCtx.rq] = <<>>] ELSE resultQ
    \* the timer created at line 97 sleeps restart_interval from now
    /\ age' = 0
    /\ UNCHANGED <<connected, ipVars, lastWritten, nOthers, dropped, errLogged,
                   pollerRes, sendCall, pushed, recog, stopBy, outVars, clientVars,
                   nTimerFires, nErrors>>

\* ---- handle_event ----

handle_audio_start(fmt) ==
    /\ loopPc = "idle" /\ curEvent = ""
    /\ ConnectionOpen
    /\ MoreEvents
    /\ nStarts' = nStarts + 1
    /\ curEvent' = "AudioStart"
    /\ stream_format' = fmt
    /\ \E stale \in BOOLEAN : StopSignal("audio_start", stale)
    /\ UNCHANGED <<connected, ipVars, lastWritten, engineVars, nOthers, dropped,
                   eventResult, errLogged, age, stopSigRest, lastEvent, pollerRes,
                   outVars, nFrames, nStops, nDescribes, nTimerFires, nErrors>>

handle_audio_stop ==
    /\ loopPc = "idle" /\ curEvent = ""
    /\ ConnectionOpen
    /\ MoreEvents
    /\ nStops' = nStops + 1
    /\ curEvent' = "AudioStop"
    /\ \E stale \in BOOLEAN : StopSignal("audio_stop", stale)
    /\ UNCHANGED <<connected, ipVars, lastWritten, engineVars, nOthers, dropped,
                   eventResult, errLogged, age, stopSigRest, stream_format, lastEvent,
                   pollerRes, outVars, nStarts, nFrames, nDescribes, nTimerFires,
                   nErrors>>

\* the test at the head of handle_audio_chunk
AcceptsAudio ==
    /\ audio_queue # 0
    /\ worker_process # 0
    /\ Alive(wpc[worker_process])

handle_audio_chunk ==
    /\ loopPc = "idle" /\ curEvent = ""
    /\ ConnectionOpen
    /\ MoreEvents
    /\ nFrames' = nFrames + 1
    /\ IF AcceptsAudio
       THEN /\ sendCall' = [st |-> "pending", frame |-> nFrames + 1, q |-> 0]
            /\ curEvent' = "AudioChunk"
            /\ UNCHANGED lastEvent
            /\ UNCHANGED <<eventResult, dropped>>
       ELSE /\ lastEvent' = "AudioChunk"
            /\ eventResult' = HandleEventResult
            /\ dropped' = dropped \cup {nFrames + 1}
            /\ UNCHANGED <<sendCall, curEvent>>
    /\ UNCHANGED <<connected, ipVars, lastWritten, engineVars, nOthers, errLogged, age,
                   handlerVars, loopPc, stopCtx, poller, pollerRes, timer, workerVars,
                   aqClosed, rqClosed, stopLog, stopBy, outVars, nStarts, nStops,
                   nDescribes, nTimerFires, nErrors, wstream, closedStreams>>

\* _send_audio_to_queue in its executor thread: reads self.audio_queue ...
SendRead ==
    /\ sendCall.st = "pending"
    /\ sendCall' = IF audio_queue = 0
                   THEN [sendCall EXCEPT !.st = "done"]
                   ELSE [sendCall EXCEPT !.st = "gotq", !.q = audio_queue]
    /\ dropped' = IF audio_queue = 0 THEN dropped \cup {sendCall.frame} ELSE dropped
    /\ UNCHANGED <<connected, ipVars, lastWritten, engineVars, nOthers, eventResult,
                   errLogged, age, handlerVars, loopPc, stopCtx, curEvent, lastEvent,
                   poller, pollerRes, timer, workerVars, aqClosed, rqClosed, stopLog,
                   stopBy, outVars, clientVars, nTimerFires, nErrors, wstream,
                   closedStreams>>

\* faulty variant of PutFailed: the exception leaves _send_audio_to_queue
PutFailedRaises == "raised"

\* except Exception as e: _LOGGER.error(...): the call returns normally
PutFailed == "done"

\* ... then put_nowait(audio_data); a closed queue raises
SendPut ==
    /\ sendCall.st = "gotq"
    /\ audioQ' = IF aqClosed[sendCall.q] = 0
                 THEN [audioQ EXCEPT ![sendCall.q] = QueuePut(@, sendCall.frame)]
                 ELSE audioQ
    /\ sendCall' = [sendCall EXCEPT !.st = IF aqClosed[sendCall.q] = 0 THEN "done"
                                           ELSE PutFailed]
    /\ dropped' = IF aqClosed[sendCall.q] = 0 THEN dropped ELSE dropped \cup {sendCall.frame}
    /\ UNCHANGED <<connected, ipVars, lastWritten, engineVars, nOthers, eventResult,
                   errLogged, age, handlerVars, loopPc, stopCtx, curEvent, lastEvent,
                   poller, pollerRes, timer, wcount, wpc, wfmt, resultQ, pushed, recog,
                   aqClosed, rqClosed, stopLog, stopBy, outVars, clientVars,
                   nTimerFires, nErrors, wstream, closedStreams>>

\* the await of run_in_executor in handle_audio_chunk returns, or raises what
\* the call raised
ChunkDone ==
    /\ loopPc = "idle" /\ curEvent = "AudioChunk"
    /\ sendCall.st \in {"done", "raised"}
    /\ sendCall' = [st |-> "none", frame |-> 0, q |-> 0]
    /\ curEvent' = ""
    /\ lastEvent' = "AudioChunk"
    /\ eventResult' = IF sendCall.st = "raised" THEN "raised" ELSE HandleEventResult
    /\ UNCHANGED <<connected, ipVars, lastWritten, engineVars, nOthers, dropped,
                   errLogged, age, handlerVars, loopPc, stopCtx, poller, pollerRes,
                   timer, workerVars, aqClosed, rqClosed, stopLog, stopBy, outVars,
                   clientVars, nTimerFires, nErrors, wstream, closedStreams>>

\* faulty variant of InfoEvent: the wake program lists no model
InfoEventNoModels ==
    [type |-> "info", wake |-> << [name |-> "Azure", models |-> << >>] >>]

\* wyoming_info.event(): the Info that main() builds
InfoEvent ==
    [type |-> "info",
     wake |-> << [name |-> "Azure",
                  models |-> << [name |-> "Microsoft Azure Keyword",
                                 phrase |-> keyword_name,
                                 languages |-> <<"en-US">>] >>] >>]

handle_describe ==
    /\ loopPc = "idle" /\ curEvent = ""
    /\ ConnectionOpen
    /\ MoreEvents
    /\ nDescribes' = nDescribes + 1
    /\ infoSent' = infoSent + 1
    /\ lastWritten' = InfoEvent
    /\ lastEvent' = "Describe"
    /\ eventResult' = HandleEventResult
    /\ UNCHANGED <<connected, ipVars, engineVars, nOthers, dropped, errLogged, age,
                   handlerVars, loopPc, stopCtx, curEvent, poller, pollerRes, timer,
                   sendCall, workerVars, aqClosed, rqClosed, stopLog, stopBy, detSent,
                   nStarts, nFrames, nStops, nTimerFires, nErrors, wstream,
                   closedStreams>>

\* an event of any other type (Detect, ...): logged as unhandled
handle_unhandled ==
    /\ loopPc = "idle" /\ curEvent = ""
    /\ ConnectionOpen
    /\ MoreEvents
    /\ nOthers' = nOthers + 1
    /\ lastEvent' = "Other"
    /\ eventResult' = HandleEventResult
    /\ UNCHANGED <<connected, ipVars, lastWritten, engineVars, dropped, errLogged, age,
                   handlerVars, loopPc, stopCtx, curEvent, poller, pollerRes, timer,
                   sendCall, workerVars, aqClosed, rqClosed, stopLog, stopBy, outVars,
                   clientVars, nTimerFires, nErrors, wstream, closedStreams>>

\* the client closes the connection: AsyncEventHandler.run reads EOF, leaves
\* its loop and awaits self.disconnect(), which AzureWakeWordHandler does not
\* override: nothing of the handler changes
ConnectionEnd ==
    /\ loopPc = "idle" /\ curEvent = ""
    /\ ConnectionOpen
    /\ MoreEvents
    /\ connected' = FALSE
    /\ UNCHANGED <<ipVars, lastWritten, engineVars, nOthers, dropped, errLogged, age,
                   handlerVars, loopPc, stopCtx, curEvent, lastEvent, eventResult,
                   poller, pollerRes, timer, sendCall, workerVars, aqClosed, rqClosed,
                   stopLog, stopBy, outVars, clientVars, nTimerFires, nErrors, wstream,
                   closedStreams>>

\* ---- _restart_timer ----

\* asyncio.sleep(restart_interval) is over: start_detection_subprocess()
TimerFire(t) ==
    /\ loopPc = "idle"
    /\ timer[t] = "sleeping"
    /\ nTimerFires < MaxTimerFires
    /\ nTimerFires' = nTimerFires + 1
    /\ \E stale \in BOOLEAN : StopSignal("timer", stale)
    /\ UNCHANGED <<connected, ipVars, lastWritten, engineVars, nOthers, dropped,
                   eventResult, errLogged, age, stopSigRest, stream_format, curEvent,
                   lastEvent, pollerRes, outVars, clientVars, nErrors>>

\* ---- _check_detection_results ----

\* result_queue.get_nowait(): the head of the queue, None for queue.Empty
QueueHead(q) == IF q = <<>> THEN NoResult ELSE Head(q)

\* _get_result_nonblocking in its executor thread, for the poller that awaits it
GetRun(p) ==
    /\ poller[p] = "exec"
    /\ poller' = [poller EXCEPT ![p] = "ran"]
    /\ IF result_queue = 0
       THEN /\ pollerRes' = [pollerRes EXCEPT ![p] = NoResult]
            /\ UNCHANGED resultQ
       ELSE /\ pollerRes' = [pollerRes EXCEPT ![p] = QueueHead(resultQ[result_queue])]
            /\ resultQ' = [resultQ EXCEPT ![result_queue] =
                              IF @ = <<>> THEN @ ELSE QueueRest(@)]
    /\ UNCHANGED <<connected, ipVars, lastWritten, engineVars, nOthers, dropped,
                   eventResult, errLogged, age, handlerVars, loopPc, stopCtx, curEvent,
                   lastEvent, timer, sendCall, wcount, wpc, wfmt, audioQ, pushed,
                   recog, aqClosed, rqClosed, stopLog, stopBy, outVars, clientVars,
                   nTimerFires, nErrors, wstream, closedStreams>>

\* the same call when its poller was cancelled before the thread ran it: it
\* reads whatever self.result_queue is by then, and nobody awaits the result
StaleGetRun(p) ==
    /\ poller[p] = "stale"
    /\ poller' = [poller EXCEPT ![p] = "cancelled"]
    /\ resultQ' = IF result_queue # 0 /\ resultQ[result_queue] # <<>>
                  THEN [resultQ EXCEPT ![result_queue] = QueueRest(@)]
                  ELSE resultQ
    /\ UNCHANGED <<connected, ipVars, lastWritten, engineVars, nOthers, dropped,
                   eventResult, errLogged, age, handlerVars, loopPc, stopCtx, curEvent,
                   lastEvent, pollerRes, timer, sendCall, wcount, wpc, wfmt, audioQ,
                   pushed, recog, aqClosed, rqClosed, stopLog, stopBy, outVars,
                   clientVars, nTimerFires, nErrors, wstream, closedStreams>>

\* result_data.get("status") == "detected": a Detection event is written
WritesDetection(res) == res.status = "detected"

\* faulty variant of Restarts: the restart is left out; the restart is outside the branch
RestartsNever(res) == FALSE
RestartsOnAnyResult(res) == res.status # "none"

\* ... and, in the same branch, start_detection_subprocess() is called
Restarts(res) == res.status = "detected"

\* result_data.get("status") == "error": _LOGGER.error, nothing else
LogsError(res) == res.status = "error"

\* faulty variant of DetectionName: the name is the text the engine reported
DetectionNameFromText(res) == res.text

\* name=self.cli_args.keyword_name
DetectionName(res) == keyword_name

\* int(datetime.now().timestamp()): whole seconds, fraction cut off
Timestamp(now) == now \div 10

\* Detection(name=..., timestamp=...).event()
DetectionEvent(name, ts) == [type |-> "detection", name |-> name, timestamp |-> ts]

\* the await of run_in_executor returns in the poller. With a detection, the
\* event is written; write_event's drain may suspend the poller (suspend) before
\* start_detection_subprocess is called
PollerResume(p, suspend) ==
    /\ loopPc = "idle"
    /\ poller[p] = "ran"
    /\ pollerRes' = [pollerRes EXCEPT ![p] = NoResult]
    \* await self.write_event(detection.event())
    /\ detSent' = IF WritesDetection(pollerRes[p]) THEN [detSent EXCEPT ![p] = @ + 1]
                  ELSE detSent
    /\ IF WritesDetection(pollerRes[p])
       THEN \E now \in Times :
               lastWritten' = DetectionEvent(DetectionName(pollerRes[p]), Timestamp(now))
       ELSE UNCHANGED lastWritten
    /\ UNCHANGED infoSent
    /\ errLogged' = IF LogsError(pollerRes[p]) THEN errLogged \cup {p} ELSE errLogged
    /\ IF Restarts(pollerRes[p])
       THEN IF suspend
            THEN /\ poller' = [poller EXCEPT ![p] = "write"]
                 /\ UNCHANGED <<handlerVars, loopPc, stopCtx, timer, audioQ, stopLog,
                                stopBy>>
            ELSE /\ StopSignal("poller", FALSE)
                 /\ UNCHANGED stream_format
       ELSE /\ ~suspend
            \* asyncio.sleep(0.05), then the next run_in_executor
            /\ poller' = [poller EXCEPT ![p] = "exec"]
            /\ UNCHANGED <<handlerVars, loopPc, stopCtx, timer, audioQ, stopLog, stopBy>>
    /\ UNCHANGED <<connected, ipVars, engineVars, nOthers, dropped, eventResult, age,
                   stopSigRest, curEvent, lastEvent, clientVars, nTimerFires, nErrors>>

\* the same await when the client has closed the connection: write_event may
\* raise (connection lost); "except Exception" logs it and the poller ends,
\* with no Detection written and no restart
PollerWriteFails(p) ==
    /\ loopPc = "idle"
    /\ poller[p] = "ran"
    /\ WritesDetection(pollerRes[p])
    /\ ~connected
    /\ poller' = [poller EXCEPT ![p] = "failed"]
    /\ pollerRes' = [pollerRes EXCEPT ![p] = NoResult]
    /\ UNCHANGED <<connected, ipVars, lastWritten, engineVars, nOthers, dropped,
                   eventResult, errLogged, age, handlerVars, loopPc, stopCtx, curEvent,
                   lastEvent, timer, sendCall, workerVars, aqClosed, rqClosed, stopLog,
                   stopBy, outVars, clientVars, nTimerFires, nErrors, wstream,
                   closedStreams>>

\* write_event returns: start_detection_subprocess()
PollerDrained(p) ==
    /\ loopPc = "idle"
    /\ poller[p] = "write"
    /\ StopSignal("poller", FALSE)
    /\ UNCHANGED <<connected, ipVars, lastWritten, engineVars, nOthers, dropped,
                   eventResult, errLogged, age, stopSigRest, stream_format, curEvent,
                   lastEvent, pollerRes, outVars, clientVars, nTimerFires, nErrors>>

\* ---- worker_main, one process per worker ----

\* faulty variant of DisposeRuns: the dispose block is not guarded
DisposeUnguarded(rec) == TRUE

\* finally: if recognizer: stop_recognition_async().get(), disconnect_all()
DisposeRuns(rec) == rec

\* the finally clause, for dispose count n
Dispose(rec, n) == IF DisposeRuns(rec) THEN n + 1 ELSE n

\* faulty variant of AfterError: the worker goes on to its read loop
AfterErrorReads == "loop"

\* after the except and finally clauses worker_main returns: the process ends
AfterError == "exited"

\* KeywordRecognitionModel(...) .. recognize_once_async(model) succeed
WorkerInitOk(w) ==
    /\ wpc[w] = "init"
    /\ wpc' = [wpc EXCEPT ![w] = "loop"]
    /\ recognizer' = [recognizer EXCEPT ![w] = TRUE]
    /\ UNCHANGED <<connected, ipVars, lastWritten, handlerVars, loopPc, stopCtx,
                   curEvent, lastEvent, poller, pollerRes, timer, sendCall, wcount,
                   wfmt, audioQ, resultQ, pushed, recog, aqClosed, rqClosed, stopLog,
                   stopBy, outVars, clientVars, nTimerFires, nErrors, wstream,
                   closedStreams, wmsgs, wtook, disposed, wexit, nOthers, eventResult,
                   dropped, errLogged, age>>

\* the message of the outer except clause (its err field is left out)
ErrorMessage == [status |-> "error"]

\* they raise, before the recognizer exists (lines 34-43) or after (lines
\* 60-63): the except clause reports the error, the finally clause runs, the
\* process ends
WorkerInitFail(w) ==
    /\ wpc[w] = "init"
    /\ nErrors < MaxErrors
    /\ nErrors' = nErrors + 1
    /\ \E created \in BOOLEAN :
          /\ recognizer' = [recognizer EXCEPT ![w] = created]
          /\ disposed' = [disposed EXCEPT ![w] = Dispose(created, @)]
    /\ resultQ' = [resultQ EXCEPT ![w] = QueuePut(@, ErrorMessage)]
    /\ wmsgs' = [wmsgs EXCEPT ![w] = @ + 1]
    /\ wexit' = [wexit EXCEPT ![w] = "init_error"]
    /\ wpc' = [wpc EXCEPT ![w] = AfterError]
    /\ UNCHANGED <<connected, ipVars, lastWritten, handlerVars, loopPc, stopCtx,
                   curEvent, lastEvent, poller, pollerRes, timer, sendCall, wcount,
                   wfmt, audioQ, pushed, recog, aqClosed, rqClosed, stopLog, stopBy,
                   outVars, clientVars, nTimerFires, wstream, closedStreams, wtook,
                   nOthers, eventResult, dropped, errLogged, age>>

\* faulty variant of AfterSentinel: the loop goes on after the sentinel
AfterSentinelReads == "loop"

\* if msg is None: break; then push_stream.close() and the wait on the future
AfterSentinel == "wait"

\* msg = audio_queue.get(timeout=0.1): None ends the loop and push_stream is
\* closed, anything else is written to push_stream
WorkerGet(w) ==
    /\ wpc[w] = "loop"
    /\ audioQ[w] # <<>>
    /\ audioQ' = [audioQ EXCEPT ![w] = QueueRest(@)]
    /\ wtook' = [wtook EXCEPT ![w] = @ + 1]
    /\ IF Head(audioQ[w]) = Sentinel
       THEN /\ wpc' = [wpc EXCEPT ![w] = AfterSentinel]
            /\ UNCHANGED pushed
       ELSE /\ pushed' = [pushed EXCEPT ![w] = Append(@, Head(audioQ[w]))]
            /\ UNCHANGED wpc
    /\ UNCHANGED <<connected, ipVars, lastWritten, handlerVars, loopPc, stopCtx,
                   curEvent, lastEvent, poller, pollerRes, timer, sendCall, wcount,
                   wfmt, resultQ, recog, aqClosed, rqClosed, stopLog, stopBy, outVars,
                   clientVars, nTimerFires, nErrors, wstream, closedStreams,
                   recognizer, wmsgs, disposed, wexit, nOthers, eventResult, dropped,
                   errLogged, age>>

\* audio_queue.get or push_stream.write raises something else than queue.Empty:
\* "except Exception: break" ends the loop without a message; then
\* push_stream.close() succeeds, or raises into the outer except clause
WorkerLoopError(w, closeRaises) ==
    /\ wpc[w] = "loop"
    /\ nErrors < MaxErrors
    /\ nErrors' = nErrors + 1
    /\ IF closeRaises
       THEN /\ resultQ' = [resultQ EXCEPT ![w] = QueuePut(@, ErrorMessage)]
            /\ wmsgs' = [wmsgs EXCEPT ![w] = @ + 1]
            /\ wexit' = [wexit EXCEPT ![w] = "close_error"]
            /\ disposed' = [disposed EXCEPT ![w] = Dispose(recognizer[w], @)]
            /\ wpc' = [wpc EXCEPT ![w] = AfterError]
       ELSE /\ wpc' = [wpc EXCEPT ![w] = "wait"]
            /\ UNCHANGED <<resultQ, wmsgs, wexit, disposed>>
    /\ UNCHANGED <<connected, ipVars, lastWritten, handlerVars, loopPc, stopCtx,
                   curEvent, lastEvent, poller, pollerRes, timer, sendCall, wcount,
                   wfmt, audioQ, pushed, recog, aqClosed, rqClosed, stopLog, stopBy,
                   outVars, clientVars, nTimerFires, wstream, closedStreams,
                   recognizer, wtook, nOthers, eventResult, dropped, errLogged, age>>

\* push_stream.close() raises after the sentinel: the except clause reports the
\* error, the finally clause runs, the process ends
WorkerCloseFail(w) ==
    /\ wpc[w] = "loop"
    /\ audioQ[w] # <<>> /\ Head(audioQ[w]) = Sentinel
    /\ nErrors < MaxErrors
    /\ nErrors' = nErrors + 1
    /\ audioQ' = [audioQ EXCEPT ![w] = QueueRest(@)]
    /\ wtook' = [wtook EXCEPT ![w] = @ + 1]
    /\ resultQ' = [resultQ EXCEPT ![w] = QueuePut(@, ErrorMessage)]
    /\ wmsgs' = [wmsgs EXCEPT ![w] = @ + 1]
    /\ wexit' = [wexit EXCEPT ![w] = "close_error"]
    /\ disposed' = [disposed EXCEPT ![w] = Dispose(recognizer[w], @)]
    /\ wpc' = [wpc EXCEPT ![w] = AfterError]
    /\ UNCHANGED <<connected, ipVars, lastWritten, handlerVars, loopPc, stopCtx,
                   curEvent, lastEvent, poller, pollerRes, timer, sendCall, wcount,
                   wfmt, pushed, recog, aqClosed, rqClosed, stopLog, stopBy, outVars,
                   clientVars, nTimerFires, wstream, closedStreams, recognizer,
                   nOthers, eventResult, dropped, errLogged, age>>

\* fut.get() returns or raises, the finally clause runs, the process ends. The
\* engine may never complete the future: nothing forces this step
WorkerFinish(w) ==
    /\ wpc[w] = "wait"
    /\ wpc' = [wpc EXCEPT ![w] = "exited"]
    /\ wexit' = [wexit EXCEPT ![w] = "finished"]
    /\ disposed' = [disposed EXCEPT ![w] = Dispose(recognizer[w], @)]
    /\ UNCHANGED <<connected, ipVars, lastWritten, handlerVars, loopPc, stopCtx,
                   curEvent, lastEvent, poller, pollerRes, timer, sendCall, wcount,
                   wfmt, audioQ, resultQ, pushed, recog, aqClosed, rqClosed, stopLog,
                   stopBy, outVars, clientVars, nTimerFires, nErrors, wstream,
                   closedStreams, recognizer, wmsgs, wtook, nOthers, eventResult,
                   dropped, errLogged, age>>

\* the message of the _recognized callback (its rss_kb field is left out)
DetectedMessage(text) == [status |-> "detected", text |-> text]

\* the engine calls _recognized with RecognizedKeyword, from audio it was given:
\* while the worker reads its queue or waits on the future
EngineRecognized(w) ==
    /\ wpc[w] \in {"loop", "wait"}
    /\ pushed[w] # <<>>
    /\ SumRecog(MaxWorkers) < MaxRecog
    /\ recog' = [recog EXCEPT ![w] = @ + 1]
    /\ \E text \in EngineTexts :
          resultQ' = [resultQ EXCEPT ![w] = QueuePut(@, DetectedMessage(text))]
    /\ wmsgs' = [wmsgs EXCEPT ![w] = @ + 1]
    /\ UNCHANGED <<connected, ipVars, lastWritten, handlerVars, loopPc, stopCtx,
                   curEvent, lastEvent, poller, pollerRes, timer, sendCall, wcount,
                   wpc, wfmt, audioQ, pushed, aqClosed, rqClosed, stopLog, stopBy,
                   outVars, clientVars, nTimerFires, nErrors, wstream, closedStreams,
                   recognizer, wtook, disposed, wexit, nOthers, eventResult, dropped,
                   errLogged, age>>

\* ---- the system ----

Next ==
    \/ \E fmt \in Formats : handle_audio_start(fmt)
    \/ handle_audio_chunk
    \/ SendRead
    \/ SendPut
    \/ ChunkDone
    \/ handle_audio_stop
    \/ handle_describe
    \/ handle_unhandled
    \/ ConnectionEnd
    \/ StopReap
    \/ \E t \in Workers : TimerFire(t)
    \/ \E p \in Workers : GetRun(p)
    \/ \E p \in Workers : StaleGetRun(p)
    \/ \E p \in Workers, suspend \in BOOLEAN : PollerResume(p, suspend)
    \/ \E p \in Workers : PollerWriteFails(p)
    \/ \E p \in Workers : PollerDrained(p)
    \/ \E w \in Workers : WorkerInitOk(w)
    \/ \E w \in Workers : WorkerInitFail(w)
    \/ \E w \in Workers : WorkerGet(w)
    \/ \E w \in Workers, closeRaises \in BOOLEAN : WorkerLoopError(w, closeRaises)
    \/ \E w \in Workers : WorkerCloseFail(w)
    \/ \E w \in Workers : WorkerFinish(w)
    \/ \E w \in Workers : EngineRecognized(w)

Spec == Init /\ [][Next]_vars

\* ---- the same system with a clock ----

\* a restart timer whose asyncio.sleep(restart_interval) has run out
TimerDue == restart_timer_task # 0 /\ timer[restart_timer_task] = "sleeping"
            /\ age >= RestartTicks

\* one tick of the clock passes while the handler holds a worker. The loop runs
\* a timer that is due before more time passes (it blocks only in the join of
\* stop_detection_subprocess, where it holds no worker)
Tick ==
    /\ loopPc = "idle" /\ worker_process # 0
    /\ ~TimerDue
    /\ age <= RestartTicks
    /\ age' = age + 1
    /\ UNCHANGED <<connected, ipVars, lastWritten, engineVars, nOthers, eventResult,
                   dropped, errLogged, handlerVars, loopPc, stopCtx, curEvent,
                   lastEvent, poller, pollerRes, timer, sendCall, workerVars, aqClosed,
                   rqClosed, stopLog, stopBy, outVars, clientVars, nTimerFires,
                   nErrors, wstream, closedStreams>>

\* asyncio.sleep(restart_interval) returns restart_interval after the task was created
TimedTimerFire(t) == age = RestartTicks /\ TimerFire(t)

TimedNext ==
    \/ \E fmt \in Formats : handle_audio_start(fmt)
    \/ handle_audio_chunk
    \/ SendRead
    \/ SendPut
    \/ ChunkDone
    \/ handle_audio_stop
    \/ handle_describe
    \/ handle_unhandled
    \/ ConnectionEnd
    \/ StopReap
    \/ \E t \in Workers : TimedTimerFire(t)
    \/ \E p \in Workers : GetRun(p)
    \/ \E p \in Workers : StaleGetRun(p)
    \/ \E p \in Workers, suspend \in BOOLEAN : PollerResume(p, suspend)
    \/ \E p \in Workers : PollerWriteFails(p)
    \/ \E p \in Workers : PollerDrained(p)
    \/ \E w \in Workers : WorkerInitOk(w)
    \/ \E w \in Workers : WorkerInitFail(w)
    \/ \E w \in Workers : WorkerGet(w)
    \/ \E w \in Workers, closeRaises \in BOOLEAN : WorkerLoopError(w, closeRaises)
    \/ \E w \in Workers : WorkerCloseFail(w)
    \/ \E w \in Workers : WorkerFinish(w)
    \/ \E w \in Workers : EngineRecognized(w)
    \/ Tick

TimedSpec == Init /\ [][TimedNext]_vars

\* The loop runs every callback that is ready; a join ends by itself or by its
\* timeout; a drain ends when the client reads.
FairSpec ==
    /\ Spec
    /\ WF_vars(StopReap)
    /\ \A p \in Workers : WF_vars(PollerDrained(p))

\* FairSpec, and the executor runs every call it was given, the loop resumes
\* every poller whose call has returned, and every restart timer runs out
LiveSpec ==
    /\ FairSpec
    /\ \A p \in Workers : WF_vars(GetRun(p))
    /\ \A p \in Workers : WF_vars(\E suspend \in BOOLEAN : PollerResume(p, suspend))
    /\ \A t \in Workers : WF_vars(TimerFire(t))

\* ---- the in-process handler: AzureSpeechKeywordEventHandler ----

IpEventTypes == {"Describe", "Detect", "AudioStart", "AudioChunk", "AudioStop"}

\* get_results sleeps with time.sleep on the one event loop of the server:
\* while a handler is inside it no handler of any connection runs
IpLoopBlocked == \E c \in Conns : ipPc[c] = "get_results"

\* handle_event up to its first await: Describe and Detect are answered at
\* once, the audio events go on to "async with self.model_lock"
ip_handle_event(c, ev) ==
    /\ ipPc[c] = "idle" /\ ipResult[c] \in {"none", "True"}
    /\ ~IpLoopBlocked
    /\ ipEvents < IpMaxEvents
    /\ ipEvents' = ipEvents + 1
    /\ IF ev = "Describe"
       THEN /\ ipWritten' = [ipWritten EXCEPT ![c] = "info"]
            /\ ipResult' = [ipResult EXCEPT ![c] = "True"]
            /\ UNCHANGED <<ipPc, ipEv>>
       ELSE IF ev = "Detect"
       THEN /\ ipResult' = [ipResult EXCEPT ![c] = "True"]
            /\ UNCHANGED <<ipPc, ipEv, ipWritten>>
       ELSE /\ ipPc' = [ipPc EXCEPT ![c] = "lock"]
            /\ ipEv' = [ipEv EXCEPT ![c] = ev]
            /\ UNCHANGED <<ipWritten, ipResult>>
    /\ UNCHANGED <<model_lock, ip_stream, keyword_recognizer, recognition_done,
                   results, ipEngine, ipPushed, ipText, mainVars>>

\* AzureSpeechKeyword.start_keyword_detection: a new stream and recognizer,
\* recognition_done = False; _results keeps its value
start_keyword_detection ==
    /\ ip_stream' = "open"
    /\ keyword_recognizer' = TRUE
    /\ recognition_done' = FALSE
    /\ ipEngine' = "running"
    /\ ipPushed' = 0
    /\ UNCHANGED results

\* the lock is free: the body of "async with self.model_lock" for AudioStart
IpStartBody(c) ==
    /\ ipPc[c] = "lock" /\ ipEv[c] = "AudioStart"
    /\ model_lock = 0 /\ ~IpLoopBlocked
    /\ start_keyword_detection
    /\ ipPc' = [ipPc EXCEPT ![c] = "idle"]
    /\ ipResult' = [ipResult EXCEPT ![c] = "True"]
    /\ UNCHANGED <<model_lock, ipEv, ipText, ipWritten, ipEvents, mainVars>>

\* ... for AudioChunk: push_audio_chunk raises ValueError without a stream;
\* what a write to a closed stream does is up to the SDK (raises)
IpChunkBody(c, raises) ==
    /\ ipPc[c] = "lock" /\ ipEv[c] = "AudioChunk"
    /\ model_lock = 0 /\ ~IpLoopBlocked
    /\ raises => ip_stream = "closed"
    /\ ipPc' = [ipPc EXCEPT ![c] = "idle"]
    /\ IF ip_stream = "none" \/ raises
       THEN /\ ipResult' = [ipResult EXCEPT ![c] = "raised"]
            /\ UNCHANGED ipPushed
       ELSE /\ ipResult' = [ipResult EXCEPT ![c] = "True"]
            /\ ipPushed' = IF ip_stream = "open" /\ ipPushed < IpMaxPushed
                           THEN ipPushed + 1 ELSE ipPushed
    /\ UNCHANGED <<model_lock, ip_stream, keyword_recognizer, recognition_done,
                   results, ipEngine, ipEv, ipText, ipWritten, ipEvents, mainVars>>

\* ... for AudioStop: get_results up to its wait loop. Without a recognizer it
\* raises ValueError and returns ""; else it closes the stream and waits
IpStopBody(c) ==
    /\ ipPc[c] = "lock" /\ ipEv[c] = "AudioStop"
    /\ model_lock = 0 /\ ~IpLoopBlocked
    /\ model_lock' = c
    /\ IF ~keyword_recognizer
       THEN /\ ipText' = [ipText EXCEPT ![c] = ""]
            /\ ipPc' = [ipPc EXCEPT ![c] = "write"]
            /\ UNCHANGED ip_stream
       ELSE /\ ip_stream' = "closed"
            /\ ipPc' = [ipPc EXCEPT ![c] = "get_results"]
            /\ UNCHANGED ipText
    /\ UNCHANGED <<keyword_recognizer, recognition_done, results, ipEngine, ipPushed,
                   ipEv, ipWritten, ipResult, ipEvents, mainVars>>

\* the test of the wait loop of get_results: while not self.recognition_done
WaitOver == recognition_done

\* the wait loop of get_results ends, stop_recognition_async().get() returns;
\* get_results returns "" without a result, else the text of the result
IpGetResultsReturn(c) ==
    /\ ipPc[c] = "get_results"
    /\ WaitOver
    /\ ipText' = [ipText EXCEPT ![c] = results]
    /\ ipPc' = [ipPc EXCEPT ![c] = "write"]
    /\ UNCHANGED <<model_lock, ip_stream, keyword_recognizer, recognition_done,
                   results, ipEngine, ipPushed, ipEv, ipWritten, ipResult, ipEvents,
                   mainVars>>

\* write_event(Detection(name=text)) or write_event(NotDetected()) returns
\* and handle_event returns False, or it raises and handle_event returns True;
\* either way the lock is released
IpWriteDone(c, raises) ==
    /\ ipPc[c] = "write"
    /\ ipPc' = [ipPc EXCEPT ![c] = "idle"]
    /\ model_lock' = 0
    /\ IF raises
       THEN /\ ipResult' = [ipResult EXCEPT ![c] = "True"]
            /\ UNCHANGED ipWritten
       ELSE /\ ipResult' = [ipResult EXCEPT ![c] = "False"]
            /\ ipWritten' = [ipWritten EXCEPT ![c] =
                                IF ipText[c] # "" THEN "detection" ELSE "notdetected"]
    /\ UNCHANGED <<ip_stream, keyword_recognizer, recognition_done, results, ipEngine,
                   ipPushed, ipEv, ipText, ipEvents, mainVars>>

\* recognized_cb, called by the SDK with RecognizedKeyword from audio it was given
IpEngineRecognized(text) ==
    /\ ipEngine = "running" /\ ipPushed > 0
    /\ recognition_done' = TRUE
    /\ results' = text
    /\ ipEngine' = "recognized"
    /\ UNCHANGED <<model_lock, ip_stream, keyword_recognizer, ipPushed, ipPc, ipEv,
                   ipText, ipWritten, ipResult, ipEvents, mainVars>>

\* canceled_cb: the stream ended and no keyword was in it; it only prints
IpEngineCanceled ==
    /\ ipEngine = "running" /\ ip_stream = "closed"
    /\ ipEngine' = "canceled"
    /\ UNCHANGED <<model_lock, ip_stream, keyword_recognizer, recognition_done,
                   results, ipPushed, ipPc, ipEv, ipText, ipWritten, ipResult,
                   ipEvents, mainVars>>

InProcNext ==
    \/ \E c \in Conns, ev \in IpEventTypes : ip_handle_event(c, ev)
    \/ \E c \in Conns : IpStartBody(c)
    \/ \E c \in Conns, raises \in BOOLEAN : IpChunkBody(c, raises)
    \/ \E c \in Conns : IpStopBody(c)
    \/ \E c \in Conns : IpGetResultsReturn(c)
    \/ \E c \in Conns, raises \in BOOLEAN : IpWriteDone(c, raises)
    \/ \E text \in EngineTexts : IpEngineRecognized(text)
    \/ IpEngineCanceled

InProcSpec == Init /\ [][InProcNext]_vars

\* ---- properties ----

RECURSIVE SumDet(_, _)
\* Detection events written for the workers 1..n of stream s
SumDet(s, n) ==
    IF n = 0 THEN 0
    ELSE (IF wstream[n] = s THEN detSent[n] ELSE 0) + SumDet(s, n - 1)

\* Detection and NotDetected events written for stream s; no step of the
\* handler writes a NotDetected event
TerminalEvents(s) == SumDet(s, MaxWorkers)

\* the worker was stopped and stop_detection_subprocess has returned
Stopped(w) == stopBy[w] # "" /\ ~(loopPc = "join" /\ stopCtx.proc = w)

\* C1: every stream AudioStart .. AudioStop gets exactly one of Detection and
\* NotDetected, written after its AudioStop was processed and never before
C1_OneTerminalEventAfterStop ==
    \A s \in 1..nStarts :
        /\ s \in closedStreams => TerminalEvents(s) = 1
        /\ s \notin closedStreams => TerminalEvents(s) = 0

\* C2: when the engine of the worker that AudioStop stopped recognized the
\* keyword (from frames fed before the stop), a Detection was sent for it once
\* the stop has returned, also when the worker reported it after the stop began
C2_DetectionNotDiscardedByStop ==
    \A w \in Workers :
        (stopBy[w] = "audio_stop" /\ Stopped(w) /\ recog[w] > 0) => detSent[w] >= 1

\* C3: the frames each worker wrote to its push stream are frames the session
\* received, in the order received, none twice, and none at two workers
C3_FramesInOrderOncePerWorker ==
    /\ \A w \in Workers : \A i \in 1..Len(pushed[w]) :
          /\ pushed[w][i] \in 1..nFrames
          /\ \A j \in 1..Len(pushed[w]) : i < j => pushed[w][i] < pushed[w][j]
    /\ \A w1, w2 \in Workers : \A i \in 1..Len(pushed[w1]), j \in 1..Len(pushed[w2]) :
          pushed[w1][i] = pushed[w2][j] => w1 = w2

C3_Witness ==
    \E w \in Workers : Len(pushed[w]) >= 2

\* C4: a worker a Detection was written for is torn down and a newer worker is
\* started, unless an AudioStop ends the stream first: from some point on this
\* holds of every such worker (a Detection written, a dead process, a newer
\* worker and a closed stream all stay so). Every worker started is the
\* handler's worker and accepts audio at once
C4_RotationAfterDetection ==
    /\ [][wcount' # wcount => (worker_process' = wcount' /\ AcceptsAudio')]_vars
    /\ <>[](\A p \in Workers :
              (detSent[p] >= 1) =>
                  ((wcount > p /\ ~Alive(wpc[p])) \/ wstream[p] \in closedStreams))

C4_Witness ==
    \E p \in Workers :
        /\ detSent[p] = 1 /\ stopBy[p] = "poller"
        /\ worker_process > p /\ AcceptsAudio
        /\ nStarts = 1

\* C5: at most one worker process is alive, and it is the handler's worker or
\* the one stop_detection_subprocess is joining
C5_AtMostOneWorker ==
    /\ Cardinality({w \in Workers : Alive(wpc[w])}) <= 1
    /\ \A w \in Workers :
          Alive(wpc[w]) => (w = worker_process \/ (loopPc = "join" /\ stopCtx.proc = w))

C5_Witness ==
    /\ AcceptsAudio
    /\ \E a, b, c \in Workers :
          stopBy[a] = "audio_start" /\ stopBy[b] = "poller" /\ stopBy[c] = "timer"

\* C6: stop_detection_subprocess can always return, and when it has returned
\* the worker it stopped is not alive
C6_StopReturns ==
    /\ loopPc = "join" => ENABLED StopReap
    /\ \A w \in Workers : Stopped(w) => ~Alive(wpc[w])

C6_Witness ==
    \E w \in Workers :
        /\ Stopped(w) /\ wpc[w] = "terminated"
        /\ stopLog[w] = <<"sentinel", "join", "terminate", "close_audio", "close_result">>

supervisorVars == <<handlerVars, poller, timer, wcount, wpc, audioQ, resultQ, aqClosed,
                    rqClosed, stopLog, stopBy, outVars>>

\* a step of handle_audio_stop taken when the last event handled was an AudioStop
SecondStopStep ==
    /\ lastEvent = "AudioStop"
    /\ \/ curEvent = "" /\ curEvent' = "AudioStop"
       \/ curEvent = "AudioStop" /\ curEvent' = ""

\* C7: an AudioStop handled directly after an AudioStop changes nothing: no
\* field, task, process, queue, close count, sentinel or written event
C7_SecondStopIsNoOp ==
    [][SecondStopStep => UNCHANGED supervisorVars]_vars

C7_Witness ==
    /\ lastEvent = "AudioStop" /\ curEvent = "AudioStop"
    /\ \E w \in Workers : stopBy[w] = "audio_stop" /\ aqClosed[w] = 1

StopOrders ==
    { <<"sentinel", "close_audio", "close_result">>,
      <<"sentinel", "join", "close_audio", "close_result">>,
      <<"sentinel", "join", "terminate", "close_audio", "close_result">> }

\* C8: a stop sends the sentinel, joins, terminates a worker still alive, then
\* closes both queues; both queues of a stopped worker were closed exactly once
C8_StopOrderAndCloseOnce ==
    \A w \in Workers :
        /\ aqClosed[w] <= 1 /\ rqClosed[w] <= 1
        /\ stopLog[w] \in StopOrders \cup {<<>>, <<"sentinel">>}
        /\ Stopped(w) => (stopLog[w] \in StopOrders /\ aqClosed[w] = 1 /\ rqClosed[w] = 1)
        /\ (stopBy[w] # "" /\ ~Stopped(w)) => stopLog[w] = <<"sentinel">>
        /\ stopBy[w] = "" => (stopLog[w] = <<>> /\ aqClosed[w] = 0 /\ rqClosed[w] = 0)

C8_Witness ==
    \E a, b, c \in Workers :
        /\ Stopped(a) /\ stopLog[a] = <<"sentinel", "close_audio", "close_result">>
        /\ Stopped(b) /\ stopLog[b] = <<"sentinel", "join", "close_audio", "close_result">>
        /\ Stopped(c)
        /\ stopLog[c] = <<"sentinel", "join", "terminate", "close_audio", "close_result">>

\* C9: the poller writes the Detection of worker w while w is still the
\* handler's worker, not yet told to stop, and no AudioStop has ended its
\* stream; a worker the poller tears down had its Detection written before
C9_DetectionBeforeTeardown ==
    /\ [][\A w \in Workers :
             detSent'[w] > detSent[w] =>
                 /\ worker_process = w /\ stopLog[w] = <<>> /\ stopBy[w] = ""
                 /\ wstream[w] = nStarts /\ nStarts \notin closedStreams]_vars
    /\ [](\A w \in Workers : stopBy[w] = "poller" => detSent[w] >= 1)

C9_Witness ==
    \E w \in Workers :
        /\ detSent[w] = 1 /\ worker_process = w /\ poller[w] = "write"
        /\ Alive(wpc[w]) /\ nStops = 0

\* C10: no worker gets more than one Detection event, however many messages
\* it put on its result queue
C10_AtMostOneDetectionPerWorker ==
    \A w \in Workers : detSent[w] <= 1

C10_Witness ==
    \E w \in Workers : recog[w] >= 2 /\ detSent[w] = 1

\* a step in which a restart timer runs out
TimerFireStep == nTimerFires' # nTimerFires

\* the step in which the stop begun by a restart timer returns
TimerRotationDone == loopPc = "join" /\ stopCtx.by = "timer" /\ loopPc' = "idle"

C12_NoRespawnAfterError ==
    \A w \in errLogged :
        wcount > w => stopBy[w] \in {"audio_start", "audio_stop"}

\* the handler holds no queue, no process, or a process that has ended
InboxUnavailable ==
    audio_queue = 0 \/ worker_process = 0 \/ ~Alive(wpc[worker_process])

\* frame f is on no audio queue and was written to no push stream
NowhereQueued(f) ==
    \A w \in Workers :
        /\ \A i \in 1..Len(audioQ[w]) : audioQ[w][i] # f
        /\ \A i \in 1..Len(pushed[w]) : pushed[w][i] # f

\* C13: a frame that arrives while the inbox is unavailable, or whose executor
\* call finds self.audio_queue None or the queue closed, is dropped: no worker
\* ever gets it, the step changes nothing of the supervisor, the executor call
\* returns normally, handle_event returns True and the next event is read
C13_UnavailableInboxDropsFrame ==
    /\ [](\A f \in dropped : NowhereQueued(f))
    /\ [][(nFrames' # nFrames /\ InboxUnavailable) =>
             /\ nFrames' \in dropped' /\ curEvent' = "" /\ eventResult' = "True"
             /\ UNCHANGED <<supervisorVars, sendCall>>]_vars
    /\ [][(sendCall' # sendCall /\
             \/ sendCall.st = "pending" /\ audio_queue = 0
             \/ sendCall.st = "gotq" /\ aqClosed[sendCall.q] > 0) =>
             /\ sendCall.frame \in dropped' /\ sendCall'.st = "done"
             /\ UNCHANGED supervisorVars]_vars
    /\ []((curEvent = "AudioChunk" /\ sendCall.frame \in dropped) => sendCall.st = "done")
    /\ [][(curEvent = "AudioChunk" /\ curEvent' = "") =>
             /\ eventResult' = "True" /\ ConnectionOpen'
             /\ UNCHANGED supervisorVars]_vars

C13_Witness ==
    /\ dropped = {1, 2} /\ nFrames = 2 /\ nStarts = 1
    /\ curEvent = "" /\ lastEvent = "AudioChunk" /\ eventResult = "True"
    /\ wcount = 2 /\ AcceptsAudio

\* a step in which a handle_event call returns or raises
EventEnds ==
    \/ curEvent # "" /\ curEvent' = ""
    \/ curEvent = "" /\ curEvent' = "" /\ lastEvent' # lastEvent
    \/ curEvent = "" /\ curEvent' = "" /\ eventResult' # eventResult
    \/ curEvent = "" /\ curEvent' = ""
          /\ <<clientVars, nOthers>>' # <<clientVars, nOthers>>

\* the call of handle_event in progress can take its next step
EventAdvances ==
    /\ curEvent \in {"AudioStart", "AudioStop"} => (loopPc = "join" /\ ENABLED StopReap)
    /\ curEvent = "AudioChunk" =>
          \/ sendCall.st = "pending" /\ ENABLED SendRead
          \/ sendCall.st = "gotq" /\ ENABLED SendPut
          \/ sendCall.st = "done" /\ loopPc = "idle" /\ ENABLED ChunkDone
          \/ sendCall.st = "done" /\ loopPc = "join" /\ ENABLED StopReap

\* C14: whatever happened to the workers, every handle_event call can finish,
\* every call that ends returns True, and while the client has events the
\* idle handler accepts an event of every type
C14_EveryEventReturnsTrue ==
    /\ [](eventResult \in {"none", "True"})
    /\ [][EventEnds => eventResult' = "True"]_vars
    /\ [](curEvent # "" => EventAdvances)
    /\ []((loopPc = "idle" /\ curEvent = "" /\ MoreEvents) =>
             /\ \A fmt \in Formats : ENABLED handle_audio_start(fmt)
             /\ ENABLED handle_audio_chunk
             /\ ENABLED handle_audio_stop
             /\ ENABLED handle_describe
             /\ ENABLED handle_unhandled)

C14_Witness ==
    /\ errLogged # {}
    /\ \E w \in Workers : wpc[w] = "terminated"
    /\ \E w \in Workers : wpc[w] = "exited" /\ stopBy[w] = "timer"
    /\ lastEvent = "Describe" /\ eventResult = "True" /\ curEvent = ""

\* C15: a stream in which the poller logged a worker's error and which an
\* AudioStop has ended got a terminal event (NotDetected, or at least a
\* Detection)
C15_TerminalEventAfterEngineError ==
    \A s \in closedStreams :
        (\E w \in errLogged : wstream[w] = s) => TerminalEvents(s) >= 1

\* C16: a worker_main that has returned put exactly one message on its result
\* queue
C16_OneTerminalMessage ==
    \A w \in Workers : wexit[w] # "" => wmsgs[w] = 1

\* C17: a worker whose engine did not start puts the error message, as its only
\* message, and ends; it took nothing from its audio queue, wrote no frame to a
\* push stream, and takes no step afterwards
C17_InitErrorReportsAndExits ==
    /\ [](\A w \in Workers :
             wexit[w] = "init_error" =>
                 /\ wpc[w] = "exited" /\ wmsgs[w] = 1 /\ recog[w] = 0
                 /\ wtook[w] = 0 /\ pushed[w] = <<>>)
    /\ [][\A w \in Workers :
             /\ (wpc[w] = "init" /\ wexit'[w] = "init_error") =>
                   /\ resultQ'[w] = Append(resultQ[w], [status |-> "error"])
                   /\ audioQ'[w] = audioQ[w]
             /\ (wpc[w] = "init" /\ audioQ'[w] # audioQ[w]) =>
                   (wpc'[w] = "init" \/ loopPc = "join")
             /\ wpc[w] = "exited" =>
                   (wpc'[w] = "exited" /\ pushed'[w] = pushed[w] /\ recog'[w] = recog[w])]_vars

C17_Witness ==
    \E w \in Workers :
        /\ wexit[w] = "init_error" /\ ~recognizer[w]
        /\ Len(audioQ[w]) >= 1 /\ resultQ[w] = <<[status |-> "error"]>>

\* C18: the dispose block never runs twice; when worker_main has returned, by
\* any path, it ran once if the recognizer was created and not at all
\* otherwise; it does not run while worker_main is still running
C18_DisposeOnceIfCreated ==
    \A w \in Workers :
        /\ disposed[w] <= 1
        /\ wexit[w] # "" => disposed[w] = (IF recognizer[w] THEN 1 ELSE 0)
        /\ wexit[w] = "" => disposed[w] = 0

C18_Witness ==
    \E w \in Workers :
        /\ wexit[w] = "close_error" /\ recognizer[w] /\ disposed[w] = 1
        /\ Len(pushed[w]) >= 1 /\ wtook[w] = Len(pushed[w])

\* a step of handle_describe
DescribeStep == nDescribes' # nDescribes

\* C19: a Describe can be handled in every state of the idle handler; handling
\* it writes one event, an Info with one wake program that has at least one
\* model, and changes no field of the handler, no task, no process and no queue
C19_DescribeIsPureQuery ==
    /\ []((loopPc = "idle" /\ curEvent = "" /\ MoreEvents) => ENABLED handle_describe)
    /\ [][DescribeStep =>
             /\ infoSent' = infoSent + 1 /\ detSent' = detSent
             /\ lastWritten'.type = "info"
             /\ Len(lastWritten'.wake) = 1
             /\ Len(lastWritten'.wake[1].models) >= 1
             /\ UNCHANGED <<handlerVars, loopPc, stopCtx, poller, pollerRes, timer,
                            sendCall, workerVars, aqClosed, rqClosed, stopLog, stopBy>>]_vars

C19_Witness ==
    /\ lastEvent = "Describe" /\ infoSent = 1 /\ lastWritten.type = "info"
    /\ AcceptsAudio /\ Len(pushed[worker_process]) = 1
    /\ poller[worker_process] = "ran" /\ pollerRes[worker_process].status = "detected"

SendInFlight == sendCall.st \in {"pending", "gotq"}

\* C21: while an executor call of _send_audio_to_queue is in flight, no start,
\* stop or rotation changes the handler's worker, audio queue or result queue
C21_NoMutationDuringEnqueue ==
    [][SendInFlight => UNCHANGED <<worker_process, audio_queue, result_queue>>]_vars

\* the loop is inside process.join for a worker found alive at line 125
LoopWaitsForWorker == loopPc = "join" /\ stopCtx.joining

\* C22: the loop never waits for a worker to exit: while a worker is being
\* stopped or rotated, an event the client has sent can still be handled
C22_LoopNeverBlocksOnWorker ==
    /\ ~LoopWaitsForWorker
    /\ (curEvent = "" /\ MoreEvents /\ ConnectionOpen) => ENABLED handle_describe

\* an AudioStart was handled and no AudioStop has ended its stream
Streaming == nStarts > 0 /\ nStarts \notin closedStreams /\ stream_format # ""

\* C23: while a stream is open its format does not change, and every worker
\* spawned is given the format of the handler
C23_FormatImmutableWhileStreaming ==
    /\ [][Streaming => stream_format' = stream_format]_vars
    /\ [][wcount' # wcount => wfmt'[wcount'] = stream_format']_vars

\* a step in which a worker process is created
SpawnStep == wcount' # wcount

\* a poller that can still resume, a timer that can still run out
PollerPending(p) == poller[p] \in {"exec", "ran", "write"}
TimerPending(t) == timer[t] = "sleeping"

PushStreamClosed(w) == wpc[w] = "wait" \/ wexit[w] = "finished"

\* the frames on the audio queue of w that were put after a sentinel
BehindSentinel(w) ==
    {audioQ[w][j] : j \in {k \in 1..Len(audioQ[w]) :
                              \E i \in 1..(k - 1) : audioQ[w][i] = Sentinel}} \ {Sentinel}

C27_GetResultsBoundedWait ==
    \A c \in Conns : ipPc[c] = "get_results" => ENABLED IpGetResultsReturn(c)

\* C28: whenever the loop is between callbacks, the five fields of the handler
\* are all None or all set, to the queues and tasks created with the worker:
\* the worker's poller was never cancelled and its timer sleeps, and every
\* poller or timer that can still run belongs to the handler's worker
C28_FieldsAllOrNone ==
    loopPc = "idle" =>
        /\ \/ /\ worker_process = 0 /\ audio_queue = 0 /\ result_queue = 0
              /\ check_result_task = 0 /\ restart_timer_task = 0
           \/ /\ worker_process # 0
              /\ audio_queue = worker_process /\ result_queue = worker_process
              /\ check_result_task = worker_process
              /\ restart_timer_task = worker_process
              /\ poller[worker_process] \in {"exec", "ran", "write", "failed"}
              /\ TimerPending(worker_process)
        /\ \A w \in Workers :
              (PollerPending(w) \/ TimerPending(w)) => worker_process = w

C28_Witness ==
    /\ loopPc = "idle" /\ worker_process # 0
    /\ poller[worker_process] = "write"
    /\ curEvent = "AudioChunk" /\ sendCall.st = "pending"
    /\ \E w \in Workers : stopBy[w] # "" /\ ~PollerPending(w) /\ ~TimerPending(w)

\* the executor call of poller p took a 'detected' message from the queue and
\* the poller has not resumed yet
HoldsDetection(p) == poller[p] = "ran" /\ pollerRes[p].status = "detected"

\* C29: a poller that holds a 'detected' message keeps it until it writes the
\* Detection event (or the write raises and is logged), and an executor call
\* whose poller was cancelled takes no 'detected' message from a queue
C29_NoDetectionDiscarded ==
    /\ [][\A p \in Workers :
             HoldsDetection(p) =>
                 \/ HoldsDetection(p)'
                 \/ detSent'[p] > detSent[p]
                 \/ poller'[p] = "failed"]_vars
    /\ [][\A p \in Workers :
             (poller[p] = "stale" /\ poller'[p] # "stale" /\ resultQ' # resultQ) =>
                 Head(resultQ[result_queue]).status # "detected"]_vars

\* the handler holds no worker, no worker process is alive, and no poller or
\* timer is left that could start one
SessionStopped ==
    /\ worker_process = 0 /\ loopPc = "idle"
    /\ \A w \in Workers : ~Alive(wpc[w]) /\ ~PollerPending(w) /\ ~TimerPending(w)

\* C30: when the client has closed the connection, from some point on the
\* session is stopped for good: no worker alive, no poller, no timer, no spawn
C30_WorkerStoppedAfterConnectionEnd ==
    <>[](~connected => SessionStopped)
====
